---- MODULE Spec2Model ----
(***************************************************************************)
(* Model of pygaps.characterisation.psd_microporous: the driver            *)
(* psd_microporous and the two kernels psd_horvath_kawazoe and              *)
(* psd_horvath_kawazoe_ry, as one sequential state machine.                 *)
(*                                                                         *)
(* Units.  Relative pressure is counted in steps of 0.05 (so 0.2 is 4).     *)
(* Loadings, molecular diameters and solved widths are integers.  Floats    *)
(* that the code obtains by division are kept as exact fractions            *)
(* [num, den]; a fraction with den = 0 is numpy's inf (num > 0),            *)
(* -inf (num < 0) or nan (num = 0).                                         *)
(***************************************************************************)
EXTENDS Integers, Sequences, FiniteSets, TLC

(* ---------------------------------------------------------------- bounds *)
\* longest isotherm branch of the windowing inputs
MaxLen == 4
\* largest pressure value (in steps of 0.05) of the windowing inputs
MaxP == 3
\* most points handed to a kernel that is called directly
MaxKernelPoints == 3
\* most invocations of psd_microporous that follow one another
MaxCalls == 3

(* ------------------------------------------------------ program constants *)
_MICRO_PSD_MODELS == {"HK", "HK-CY", "RY", "RY-CY"}
_PORE_GEOMETRIES == {"slit", "cylinder", "sphere"}
BRANCHES == {"ads", "des"}
\* the key set of models_hk.HK_KEYS
HK_KEYS == {"molecular_diameter", "polarizability",
            "magnetic_susceptibility", "surface_density"}
ADSORBATE_KEYS == HK_KEYS \cup {"liquid_density", "adsorbate_molar_mass"}
\* Python's None, where the other values are strings
NoneStr == "<None>"
\* Python's None, where the other values are numbers
NoLimit == -1
\* p_limits = (None, 0.2):  0.2 in steps of 0.05
DefaultUpper == 4
\* "maximum - minimum < 3"
MinPoints == 3
\* the plausibility band 1e-3 < d < 1e3, as 1/1000 and 1000
BandScale == 1000
\* loading * molar_mass / liquid_density / 1000
VolumeScale == 1000
\* bounds=(bound, 50) of the minimiser
SolverUpper == 50

(* ------------------------------------------------------------ dictionaries *)
EmptyDict == [k \in {} |-> 0]

\* the properties psd_microporous reads from a recognised Adsorbate
AdsorbateProps ==
    [k \in ADSORBATE_KEYS |->
        CASE k = "molecular_diameter" -> 4
          [] k = "polarizability" -> 2
          [] k = "magnetic_susceptibility" -> 3
          [] k = "surface_density" -> 7
          [] k = "liquid_density" -> 2
          [] OTHER -> 2]

\* the registry entry 'Carbon(HK)'
CarbonProps ==
    [k \in HK_KEYS |->
        CASE k = "molecular_diameter" -> 2
          [] k = "polarizability" -> 1
          [] k = "magnetic_susceptibility" -> 5
          [] OTHER -> 4]

Without(d, k) == [x \in (DOMAIN d) \ {k} |-> d[x]]
With(d, k, v) == [x \in (DOMAIN d) \cup {k} |-> IF x = k THEN v ELSE d[x]]

\* a dictionary, one lacking one of its keys, and one carrying a key more
DictVariants(d) ==
    {d} \cup {Without(d, k) : k \in DOMAIN d} \cup {With(d, "name", 1)}

(* ---------------------------------------------------------------- helpers *)
Reverse(s) == [i \in 1..Len(s) |-> s[Len(s) + 1 - i]]

\* a[lo:hi] of Python, for 0 <= lo and 0 <= hi <= len(a)
Slice(a, lo, hi) == IF hi <= lo THEN <<>> ELSE SubSeq(a, lo + 1, hi)

\* bool(x) of a limit: None and 0 are false
Truthy(x) == x # NoLimit /\ x # 0

\* numpy.searchsorted(a, v), side='left', on a sorted a
searchsorted(a, v) == Cardinality({i \in 1..Len(a) : a[i] < v})

NonDecreasing(s) == \A i \in 1..(Len(s) - 1) : s[i] <= s[i + 1]

SortedSeqs(n) == {s \in [1..n -> 1..MaxP] : NonDecreasing(s)}

(* --------------------------------------------------------------- fractions *)
Frac(n, d) == [num |-> n, den |-> d]

\* 1e-3 < x in IEEE arithmetic: false for nan and -inf, true for +inf
GtBandLow(x) ==
    IF x.den > 0 THEN x.num * BandScale > x.den
    ELSE IF x.den < 0 THEN x.num * BandScale < x.den
    ELSE x.num > 0

\* x < 1e3 in IEEE arithmetic: false for nan and +inf, true for -inf
LtBandHigh(x) ==
    IF x.den > 0 THEN x.num < BandScale * x.den
    ELSE IF x.den < 0 THEN x.num > BandScale * x.den
    ELSE x.num < 0

(* ------------------------------------------------------ kernel, entry check *)
\* missing = [x for x in material_properties if x not in HK_KEYS]
MissingMaterial(material_properties) ==
    {x \in DOMAIN material_properties : x \notin HK_KEYS}

\* missing = [x for x in adsorbate_properties if x not in HK_KEYS + [...]]
MissingAdsorbate(adsorbate_properties) ==
    {x \in DOMAIN adsorbate_properties : x \notin ADSORBATE_KEYS}

(* ------------------------------------------------- dispersion constants *)
\* 1.5 * m_e * c^2 * p_ads * m_ads, in units of m_e * c^2 * 1e-54
_kirkwood_muller_dispersion_ads(p_ads, m_ads) == Frac(3 * p_ads * m_ads, 2)

\* 6 * m_e * c^2 * p_ads * p_mat / (p_ads / m_ads + p_mat / m_mat)
_kirkwood_muller_dispersion_mat(p_mat, m_mat, p_ads, m_ads) ==
    Frac(6 * p_ads * p_mat * m_ads * m_mat, p_ads * m_mat + p_mat * m_ads)

_dispersion_from_dict(ads_dict, mat_dict) ==
    << _kirkwood_muller_dispersion_ads(ads_dict["polarizability"],
                                       ads_dict["magnetic_susceptibility"]),
       _kirkwood_muller_dispersion_mat(mat_dict["polarizability"],
                                       mat_dict["magnetic_susceptibility"],
                                       ads_dict["polarizability"],
                                       ads_dict["magnetic_susceptibility"]) >>

\* d_eff = (d_ads + d_mat) / 2
d_eff(d_ads, d_mat) == (d_ads + d_mat) \div 2

\* d_eff handed to the solver for every geometry
SolverLower_AlwaysDeff(pore_geometry, d_ads, d_mat) == d_eff(d_ads, d_mat)

\* the lower bound handed to the solver: 2 * d_eff (slit), d_eff (cylinder, sphere)
SolverLower(pore_geometry, d_ads, d_mat) ==
    IF pore_geometry = "slit" THEN 2 * d_eff(d_ads, d_mat)
    ELSE d_eff(d_ads, d_mat)

\* the values res.x of the bounded minimiser that the model distinguishes:
\* the lower bound and the next value, never above the upper bound
SolverValues(bound) == {x \in {bound, bound + 1} : x <= SolverUpper}

\* coverage = loading / loading[-1]
coverage_of(loading) ==
    [i \in 1..Len(loading) |-> Frac(loading[i], loading[Len(loading)])]

\* 1 - c_point, the argument of numpy.log in sf_corr: 1 - inf is -inf and
\* 1 - nan is nan
LogArgument(c_point) ==
    IF c_point.den = 0 THEN Frac(-c_point.num, 0)
    ELSE Frac(c_point.den - c_point.num, c_point.den)

\* a float that is exactly 0
IsZero(x) == x.den # 0 /\ x.num = 0

\* the loop of the solvers taken from the last point to the first
NextPoint_Backwards(p_w, pressure) == Len(pressure) - Len(p_w)

\* "for p_point in pressure" / "for p_point, c_point in zip(pressure, coverage)":
\* the index of the point the next pass of the loop takes
NextPoint(p_w, pressure) == Len(p_w) + 1

\* what the function handed to the minimiser depends on: the potential of the
\* kernel (geometry and constants) and the point, which is p_point for
\* _solve_hk and (p_point, c_point) for _solve_hk_cy
PointKey(k, ka, i) ==
    [kernel |-> k, pore_geometry |-> ka.pore_geometry, use_cy |-> ka.use_cy,
     adsorbate_properties |-> ka.adsorbate_properties,
     material_properties |-> ka.material_properties,
     p_point |-> ka.pressure[i],
     c_point |-> IF ka.use_cy THEN coverage_of(ka.loading)[i] ELSE Frac(0, 1)]

\* the objective started from the widths found before it
Objective_WarmStart(k, ka, i, before) ==
    [point |-> PointKey(k, ka, i), carried |-> before]

\* the function fun of one pass of the loop, defined after the widths
\* "before" were found: it reads p_point (and c_point) and hk_fun, and
\* nothing of the passes before it
Objective(k, ka, i, before) ==
    [point |-> PointKey(k, ka, i), carried |-> <<>>]

\* opt.minimize_scalar(fun, method='bounded', bounds=(bound, 50)).x: one value
\* of the search interval, and the same value whenever the same function is
\* minimised again
minimize_scalar(known, key, bound) ==
    IF \E m \in known : m.key = key
    THEN {m.x : m \in {n \in known : n.key = key}}
    ELSE SolverValues(bound)

\* the record of one pass of the loop
Solve(ka, i, bound, x) ==
    [index |-> i, p_point |-> ka.pressure[i], loading |-> ka.loading[i],
     corrected |-> ka.use_cy,
     c_point |-> IF ka.use_cy THEN coverage_of(ka.loading)[i] ELSE Frac(0, 1),
     lower |-> bound, upper |-> SolverUpper, x |-> x]

(* ---------------------------------------------------------------- assembly *)
\* the solved value taken as a width in every geometry
WidthOf_NeverDoubled(pore_geometry, s, d_mat) == s - d_mat

\* pore_widths = asarray(pore_widths) - d_mat, or 2 * asarray(pore_widths) - d_mat
WidthOf(pore_geometry, s, d_mat) ==
    IF pore_geometry = "slit" THEN s - d_mat ELSE 2 * s - d_mat

pore_widths_of(p_w, pore_geometry, d_mat) ==
    [i \in 1..Len(p_w) |-> WidthOf(pore_geometry, p_w[i], d_mat)]

\* numpy.add(pore_widths[:-1], pore_widths[1:]) / 2
avg_pore_widths_of(w) ==
    [i \in 1..(Len(w) - 1) |-> Frac(w[i] + w[i + 1], 2)]

\* loading * adsorbate_molar_mass / liquid_density / 1000
volume_adsorbed_of(loading, adsorbate_molar_mass, liquid_density) ==
    [i \in 1..Len(loading) |->
        Frac(loading[i] * adsorbate_molar_mass, liquid_density * VolumeScale)]

\* the volume of the later point over its width, no differences taken
pore_dist_of_Quotient(vol, w) ==
    [i \in 1..(Len(w) - 1) |-> Frac(vol[i + 1].num, vol[i].den * w[i + 1])]

\* numpy.diff(volume_adsorbed) / numpy.diff(pore_widths)
pore_dist_of(vol, w) ==
    [i \in 1..(Len(w) - 1) |->
        Frac(vol[i + 1].num - vol[i].num, vol[i].den * (w[i + 1] - w[i]))]

\* the band applied to the absolute value, its ends included
KeepPoint_Abs(d) ==
    /\ d.den # 0
    /\ LET n == IF d.num < 0 THEN -d.num ELSE d.num
           m == IF d.den < 0 THEN -d.den ELSE d.den
       IN  n * BandScale >= m /\ n <= BandScale * m

\* (1e-3 < pore_dist) & (pore_dist < 1e3), for one element
KeepPoint(d) == GtBandLow(d) /\ LtBandHigh(d)

out_of(pore_dist) == [i \in 1..Len(pore_dist) |-> KeepPoint(pore_dist[i])]

\* a[out] of numpy, for a boolean array out as long as a
RECURSIVE Masked(_, _)
Masked(a, out) ==
    IF Len(a) = 0 \/ Len(out) = 0 THEN <<>>
    ELSE (IF Head(out) THEN <<Head(a)>> ELSE <<>>)
         \o Masked(Tail(a), Tail(out))

\* a[1:] of Python
Rest(a) == IF Len(a) = 0 THEN <<>> ELSE Tail(a)

\* the cumulative volume returned without the mask
hk_return_UnmaskedVolume(avg, dist, vol, out) ==
    [pore_widths |-> Masked(avg, out),
     pore_dist |-> Masked(dist, out),
     pore_vol_cum |-> Rest(vol)]

\* return avg_pore_widths[out], pore_dist[out], volume_adsorbed[1:][out]
hk_return(avg, dist, vol, out) ==
    [pore_widths |-> Masked(avg, out),
     pore_dist |-> Masked(dist, out),
     pore_vol_cum |-> Masked(Rest(vol), out)]

\* the RY kernel with the filter of the HK kernel
ry_return_Filtered(avg, dist, vol) ==
    [pore_widths |-> Masked(avg, [i \in 1..Len(dist) |-> KeepPoint(dist[i])]),
     pore_dist |-> Masked(dist, [i \in 1..Len(dist) |-> KeepPoint(dist[i])]),
     pore_vol_cum |-> Masked(Rest(vol), [i \in 1..Len(dist) |-> KeepPoint(dist[i])])]

\* return avg_pore_widths, pore_dist, volume_adsorbed[1:]
ry_return(avg, dist, vol) ==
    [pore_widths |-> avg, pore_dist |-> dist, pore_vol_cum |-> Rest(vol)]

\* the three arrays a kernel returns for the solved values p_w
Assemble(kernel, p_w, loading, pore_geometry, ads_props, mat_props) ==
    LET w == pore_widths_of(p_w, pore_geometry, mat_props["molecular_diameter"])
        avg == avg_pore_widths_of(w)
        vol == volume_adsorbed_of(loading, ads_props["adsorbate_molar_mass"],
                                  ads_props["liquid_density"])
        dist == pore_dist_of(vol, w)
    IN  IF kernel = "psd_horvath_kawazoe"
        THEN hk_return(avg, dist, vol, out_of(dist))
        ELSE ry_return(avg, dist, vol)

(* ------------------------------------------------------------ the inputs *)
Branch(present, pressure, loading) ==
    [present |-> present, pressure |-> pressure, loading |-> loading]

\* an isotherm whose adsorption branch holds the points (ps[i], ls[i]) in
\* increasing pressure and whose desorption branch, when recorded, holds the
\* same points in decreasing pressure
Isotherm(adsorbate, ps, ls, has_des) ==
    [adsorbate |-> adsorbate,
     ads |-> Branch(TRUE, ps, ls),
     des |-> Branch(has_des, Reverse(ps), Reverse(ls))]

NoIsotherm == Isotherm("unknown", <<>>, <<>>, FALSE)

NamedMaterial(name) == [kind |-> "str", name |-> name, dict |-> EmptyDict]
DictMaterial(d) == [kind |-> "dict", name |-> "", dict |-> d]
NoAdsorbateModel == [is_none |-> TRUE, dict |-> EmptyDict]
AdsorbateModel(d) == [is_none |-> FALSE, dict |-> d]

\* the default arguments of psd_microporous
DefaultArgs ==
    [psd_model |-> "HK", pore_geometry |-> "slit", branch |-> "ads",
     material_model |-> NamedMaterial("Carbon(HK)"),
     adsorbate_model |-> NoAdsorbateModel, p_limits |-> <<>>]

NoKernelArgs ==
    [pressure |-> <<>>, loading |-> <<>>, pore_geometry |-> "slit",
     adsorbate_properties |-> EmptyDict, material_properties |-> EmptyDict,
     use_cy |-> FALSE]

StdPressure == <<1, 2, 3, 4>>
StdLoading == <<0, 1, 3, 3>>
LoadingValues == {0, 1, 3, 1000001}
LimitLow == {NoLimit, 0, 2}
LimitHigh == {NoLimit, 0, 3, 4}
LimitInputs == {<<>>} \cup {<<lo, hi>> : lo \in LimitLow, hi \in LimitHigh}
Index(n) == [i \in 1..n |-> i]

VARIABLES
    entry,                \* the function that was called
    args,                 \* the arguments of psd_microporous, as passed
    isotherm,             \* the isotherm collaborator
    adsorbate_model,      \* local: the adsorbate properties
    material_properties,  \* local
    p_limits,             \* local
    pressure, loading,    \* locals: the branch, then its window
    minimum, maximum,     \* locals
    kernel,               \* the kernel entered, or "none"
    karg,                 \* the kernel's parameters, as received
    dispersion,           \* kernel local: <<a_ads, a_mat>>, or <<>> before
    p_w,                  \* solver local: the widths solved so far
    scattered,            \* the widths solved out of order, as they were found
    solved,               \* the passes of the solver's loop, in order
    memo,                 \* the minimisations done so far and their results
    earlier,              \* the invocations that have ended
    scan,                 \* get_isotherm_model: the classes of _MODELS passed
    heap,                 \* the model instances created so far
    exit_code,            \* the exit code of the command line, or NoExit
    pot,                  \* the locals of the Rege-Yang potential(l_pore)
    fit,                  \* the locals of initial_enthalpy_comp
    work,                 \* what numeric work has begun
    consulted,            \* whether isotherm.adsorbate has been read
    ret,                  \* the kernel's return value
    result,               \* the mapping psd_microporous returns
    outcome,              \* how the call ended
    pc

vars == <<entry, args, isotherm, adsorbate_model, material_properties,
          p_limits, pressure, loading, minimum, maximum, kernel, karg,
          dispersion, p_w, scattered, solved, memo, earlier, scan, heap, exit_code, pot,
          fit, work, consulted, ret, result, outcome, pc>>

driver_locals == <<adsorbate_model, material_properties, p_limits, pressure,
                   loading, minimum, maximum>>
kernel_locals == <<dispersion, p_w, scattered, solved, ret>>
inputs == <<entry, args, isotherm>>
history == <<memo, earlier>>
\* the state of the routines outside psd_microporous.py
elsewhere == <<scan, heap, exit_code, pot, fit>>
\* the exit code while the command has not ended
NoExit == -1
\* the locals of potential(l_pore) and of initial_enthalpy_comp outside their calls
NoPotential == <<>>
NoFit ==
    [const_min |-> 0, warnings |-> {}, runs |-> <<>>, min_fun |-> Frac(1, 0),
     final_guess |-> <<>>, best_fit |-> <<>>]

NoWork == [dispersion |-> FALSE, potential |-> FALSE, minimisation |-> FALSE]
NoReturn == [pore_widths |-> <<>>, pore_dist |-> <<>>, pore_vol_cum |-> <<>>]
Running == [kind |-> "running", site |-> ""]
Raised(kind, site) == [kind |-> kind, site |-> site]
Returned == [kind |-> "return", site |-> ""]

\* the parameter checks placed after the constants
KernelSteps_ChecksLate ==
    <<"k_unpack", "k_dispersion", "k_check", "k_solve", "k_assemble">>

\* the order of a kernel's statements: the parameter checks, the unpacking of
\* the constants, the dispersion constants, the solver, the assembly
KernelSteps == <<"k_check", "k_unpack", "k_dispersion", "k_solve", "k_assemble">>

FirstStep == KernelSteps[1]
StepAfter(step) ==
    KernelSteps[(CHOOSE i \in 1..Len(KernelSteps) : KernelSteps[i] = step) + 1]

\* the state at the call of psd_microporous(isotherm, **args)
DriverCall(a, iso) ==
    /\ entry = "psd_microporous"
    /\ args = a
    /\ isotherm = iso
    /\ adsorbate_model = a.adsorbate_model
    /\ material_properties = EmptyDict
    /\ p_limits = a.p_limits
    /\ pressure = <<>>
    /\ loading = <<>>
    /\ minimum = 0
    /\ maximum = 0
    /\ kernel = "none"
    /\ karg = NoKernelArgs
    /\ dispersion = <<>>
    /\ p_w = <<>>
    /\ scattered = <<>>
    /\ solved = <<>>
    /\ memo = {}
    /\ earlier = <<>>
    /\ scan = 0
    /\ heap = {}
    /\ exit_code = NoExit
    /\ pot = NoPotential
    /\ fit = NoFit
    /\ work = NoWork
    /\ consulted = FALSE
    /\ ret = NoReturn
    /\ result = EmptyDict
    /\ outcome = Running
    /\ pc = "check_params"

\* the state at a direct call of one of the kernels
KernelCall(k, ka) ==
    /\ entry = k
    /\ args = DefaultArgs
    /\ isotherm = NoIsotherm
    /\ adsorbate_model = NoAdsorbateModel
    /\ material_properties = EmptyDict
    /\ p_limits = <<>>
    /\ pressure = <<>>
    /\ loading = <<>>
    /\ minimum = 0
    /\ maximum = 0
    /\ kernel = k
    /\ karg = ka
    /\ dispersion = <<>>
    /\ p_w = <<>>
    /\ scattered = <<>>
    /\ solved = <<>>
    /\ memo = {}
    /\ earlier = <<>>
    /\ scan = 0
    /\ heap = {}
    /\ exit_code = NoExit
    /\ pot = NoPotential
    /\ fit = NoFit
    /\ work = NoWork
    /\ consulted = FALSE
    /\ ret = NoReturn
    /\ result = EmptyDict
    /\ outcome = Running
    /\ pc = FirstStep

KERNELS == {"psd_horvath_kawazoe", "psd_horvath_kawazoe_ry"}

\* calls that vary the validated parameters, on one isotherm
InitValidation ==
    \E m \in _MICRO_PSD_MODELS \cup {"XX", NoneStr},
       g \in _PORE_GEOMETRIES \cup {"XX"},
       b \in BRANCHES \cup {"XX"},
       mat \in {NamedMaterial("Carbon(HK)"), NamedMaterial("XX")},
       am \in {NoAdsorbateModel, AdsorbateModel(AdsorbateProps)},
       a \in {"nitrogen", "unknown"},
       has_des \in BOOLEAN :
        DriverCall([DefaultArgs EXCEPT !.psd_model = m, !.pore_geometry = g,
                        !.branch = b, !.material_model = mat,
                        !.adsorbate_model = am],
                   Isotherm(a, StdPressure, StdLoading, has_des))

\* calls that vary the property dictionaries
InitProperties ==
    \E m \in {"HK", "RY-CY"},
       mat \in {NamedMaterial("Carbon(HK)")}
                 \cup {DictMaterial(d) : d \in DictVariants(CarbonProps)},
       am \in {NoAdsorbateModel}
                 \cup {AdsorbateModel(d) : d \in DictVariants(AdsorbateProps)} :
        DriverCall([DefaultArgs EXCEPT !.psd_model = m, !.material_model = mat,
                        !.adsorbate_model = am],
                   Isotherm("nitrogen", StdPressure, StdLoading, TRUE))

\* calls that vary the branch, its pressures and the pressure limits
InitWindow ==
    \E m \in {"HK", "RY"}, b \in BRANCHES, lim \in LimitInputs, n \in 0..MaxLen :
        \E ps \in SortedSeqs(n) :
            DriverCall([DefaultArgs EXCEPT !.psd_model = m, !.branch = b,
                            !.p_limits = lim],
                       Isotherm("nitrogen", ps, Index(n), TRUE))

\* calls that vary the loadings
InitLoadings ==
    \E m \in _MICRO_PSD_MODELS, g \in _PORE_GEOMETRIES :
        \E ls \in [1..MinPoints -> LoadingValues] :
            DriverCall([DefaultArgs EXCEPT !.psd_model = m, !.pore_geometry = g],
                       Isotherm("nitrogen", Index(MinPoints), ls, TRUE))

\* direct calls of a kernel
InitKernel ==
    \E k \in KERNELS, g \in _PORE_GEOMETRIES, cy \in BOOLEAN,
       n \in 1..MaxKernelPoints :
        \E ls \in [1..n -> LoadingValues],
           ap \in IF n = 1 THEN DictVariants(AdsorbateProps) ELSE {AdsorbateProps},
           mp \in IF n = 1 THEN DictVariants(CarbonProps) ELSE {CarbonProps} :
            KernelCall(k, [pressure |-> Index(n), loading |-> ls,
                           pore_geometry |-> g, adsorbate_properties |-> ap,
                           material_properties |-> mp, use_cy |-> cy])

Init == InitValidation \/ InitProperties \/ InitWindow \/ InitLoadings \/ InitKernel

(* ------------------------------------------------------- psd_microporous *)
Raise(kind, site) ==
    /\ outcome' = Raised(kind, site)
    /\ pc' = "done"

\* the parameter checks with the check of branch left out
ParameterCheck_NoBranch(psd_model, pore_geometry, branch) ==
    IF psd_model = NoneStr THEN "psd_model is None"
    ELSE IF psd_model \notin _MICRO_PSD_MODELS THEN "psd_model"
    ELSE IF pore_geometry \notin _PORE_GEOMETRIES THEN "pore_geometry"
    ELSE ""

\* the parameter checks: the check that fails first, or "" when none does
ParameterCheck(psd_model, pore_geometry, branch) ==
    IF psd_model = NoneStr THEN "psd_model is None"
    ELSE IF psd_model \notin _MICRO_PSD_MODELS THEN "psd_model"
    ELSE IF pore_geometry \notin _PORE_GEOMETRIES THEN "pore_geometry"
    ELSE IF branch \notin BRANCHES THEN "branch"
    ELSE ""

CheckParams ==
    /\ pc = "check_params"
    /\ LET failed == ParameterCheck(args.psd_model, args.pore_geometry, args.branch)
       IN  IF failed # ""
           THEN Raise("ParameterError", failed)
           ELSE pc' = "get_adsorbate" /\ UNCHANGED outcome
    /\ UNCHANGED <<inputs, history, elsewhere, driver_locals, kernel, karg, kernel_locals, work,
                   consulted, result>>

\* the isotherm's adsorbate looked up on every call
LooksUpAdsorbate_Always(model) == TRUE

\* "if adsorbate_model is None"
LooksUpAdsorbate(model) == model.is_none

\* isinstance(isotherm.adsorbate, Adsorbate)
IsAdsorbate(adsorbate) == adsorbate = "nitrogen"

GetAdsorbate ==
    /\ pc = "get_adsorbate"
    /\ IF LooksUpAdsorbate(adsorbate_model)
       THEN /\ consulted' = TRUE
            /\ IF ~IsAdsorbate(isotherm.adsorbate)
               THEN /\ Raise("ParameterError", "adsorbate")
                    /\ UNCHANGED adsorbate_model
               ELSE /\ adsorbate_model' = AdsorbateModel(AdsorbateProps)
                    /\ pc' = "get_material"
                    /\ UNCHANGED outcome
       ELSE /\ pc' = "get_material"
            /\ UNCHANGED <<consulted, adsorbate_model, outcome>>
    /\ UNCHANGED <<inputs, history, elsewhere, material_properties, p_limits, pressure, loading,
                   minimum, maximum, kernel, karg, kernel_locals, work, result>>

\* models_hk.get_hk_model: the registry entry of a name, or a dictionary that
\* holds every key of HK_KEYS; [ok |-> FALSE] when it raises ParameterError
get_hk_model(model) ==
    IF model.kind = "str"
    THEN IF model.name = "Carbon(HK)"
         THEN [ok |-> TRUE, dict |-> CarbonProps]
         ELSE [ok |-> FALSE, dict |-> EmptyDict]
    ELSE IF HK_KEYS \subseteq DOMAIN model.dict
         THEN [ok |-> TRUE, dict |-> model.dict]
         ELSE [ok |-> FALSE, dict |-> EmptyDict]

GetMaterial ==
    /\ pc = "get_material"
    /\ LET got == get_hk_model(args.material_model)
       IN  IF got.ok
           THEN /\ material_properties' = got.dict
                /\ pc' = "read_data"
                /\ UNCHANGED outcome
           ELSE /\ Raise("ParameterError", "material_model")
                /\ UNCHANGED material_properties
    /\ UNCHANGED <<inputs, history, elsewhere, adsorbate_model, p_limits, pressure, loading, minimum,
                   maximum, kernel, karg, kernel_locals, work, consulted, result>>

\* isotherm.loading(branch=...), isotherm.pressure(branch=...)
BranchData(iso, branch) == IF branch = "des" THEN iso.des ELSE iso.ads

\* the series left as recorded, whatever the branch
Ordered_AsRecorded(branch, data) ==
    [pressure |-> data.pressure, loading |-> data.loading]

\* "if branch == 'des': loading = loading[::-1]; pressure = pressure[::-1]"
Ordered(branch, data) ==
    IF branch = "des"
    THEN [pressure |-> Reverse(data.pressure), loading |-> Reverse(data.loading)]
    ELSE [pressure |-> data.pressure, loading |-> data.loading]

\* the branch of the isotherm reversed in place
isotherm_after_read_InPlace(iso, branch) ==
    IF branch = "des"
    THEN [iso EXCEPT !.des.pressure = Reverse(@), !.des.loading = Reverse(@)]
    ELSE iso

\* the isotherm once its branch has been read: loading[::-1] and
\* pressure[::-1] are new arrays bound to the local names, the isotherm keeps
\* its data
isotherm_after_read(iso, branch) == iso

ReadData ==
    /\ pc = "read_data"
    /\ LET data == BranchData(isotherm, args.branch)
       IN  IF ~data.present
           THEN /\ Raise("ParameterError", "no branch")
                /\ UNCHANGED <<pressure, loading, isotherm>>
           ELSE /\ pressure' = Ordered(args.branch, data).pressure
                /\ loading' = Ordered(args.branch, data).loading
                /\ isotherm' = isotherm_after_read(isotherm, args.branch)
                /\ pc' = "limits"
                /\ UNCHANGED outcome
    /\ UNCHANGED <<entry, args, history, elsewhere, adsorbate_model,
                   material_properties, p_limits, minimum, maximum, kernel, karg,
                   kernel_locals, work, consulted, result>>

\* "if not p_limits: p_limits = (None, 0.2)"
EffectiveLimits(limits) ==
    IF Len(limits) = 0 THEN <<NoLimit, DefaultUpper>> ELSE limits

\* minimum = 0; if p_limits[0]: minimum = searchsorted(pressure, p_limits[0])
MinimumOf(p, limits) ==
    IF Truthy(limits[1]) THEN searchsorted(p, limits[1]) ELSE 0

\* maximum = len(pressure); if p_limits[1]: maximum = searchsorted(pressure, p_limits[1])
MaximumOf(p, limits) ==
    IF Truthy(limits[2]) THEN searchsorted(p, limits[2]) ELSE Len(p)

\* a two-point minimum instead
TooFewPoints_Two(lo, hi) == hi - lo < MinPoints - 1

\* "if maximum - minimum < 3"
TooFewPoints(lo, hi) == hi - lo < MinPoints

Limits ==
    /\ pc = "limits"
    /\ p_limits' = EffectiveLimits(p_limits)
    /\ minimum' = MinimumOf(pressure, p_limits')
    /\ maximum' = MaximumOf(pressure, p_limits')
    /\ IF TooFewPoints(minimum', maximum')
       THEN /\ Raise("CalculationError", "limits")
            /\ UNCHANGED <<pressure, loading>>
       ELSE /\ pressure' = Slice(pressure, minimum', maximum')
            /\ loading' = Slice(loading, minimum', maximum')
            /\ pc' = "dispatch"
            /\ UNCHANGED outcome
    /\ UNCHANGED <<inputs, history, elsewhere, adsorbate_model, material_properties, kernel, karg,
                   kernel_locals, work, consulted, result>>

\* "if psd_model in ['HK', 'HK-CY'] ... elif psd_model in ['RY', 'RY-CY']"
KernelOf(psd_model) ==
    IF psd_model \in {"HK", "HK-CY"} THEN "psd_horvath_kawazoe"
    ELSE "psd_horvath_kawazoe_ry"

\* use_cy=False if psd_model == 'HK' else True (and the same for 'RY')
UseCy(psd_model) == psd_model \notin {"HK", "RY"}

Dispatch ==
    /\ pc = "dispatch"
    /\ kernel' = KernelOf(args.psd_model)
    /\ karg' = [pressure |-> pressure, loading |-> loading,
                pore_geometry |-> args.pore_geometry,
                adsorbate_properties |-> adsorbate_model.dict,
                material_properties |-> material_properties,
                use_cy |-> UseCy(args.psd_model)]
    /\ pc' = FirstStep
    /\ UNCHANGED <<inputs, history, elsewhere, driver_locals, kernel_locals, work, consulted,
                   result, outcome>>

\* the mapping psd_microporous returns
ResultOf(r) ==
    [pore_widths |-> r.pore_widths,
     pore_distribution |-> r.pore_dist,
     pore_volume_cumulative |-> r.pore_vol_cum]

Return ==
    /\ pc = "return"
    /\ result' = ResultOf(ret)
    /\ outcome' = Returned
    /\ pc' = "done"
    /\ UNCHANGED <<inputs, history, elsewhere, driver_locals, kernel, karg, kernel_locals, work,
                   consulted>>

(* ----------------------------------------------------------- the kernels *)
\* the parameter checks at the head of both kernels
KCheck ==
    /\ pc = "k_check"
    /\ IF MissingMaterial(karg.material_properties) # {}
       THEN Raise("ParameterError", "material_properties")
       ELSE IF MissingAdsorbate(karg.adsorbate_properties) # {}
       THEN Raise("ParameterError", "adsorbate_properties")
       ELSE pc' = StepAfter("k_check") /\ UNCHANGED outcome
    /\ UNCHANGED <<inputs, history, elsewhere, driver_locals, kernel, karg, kernel_locals, work,
                   consulted, result>>

\* the keys a lookup d[k1], d[k2], ... does not find
Absent(d, keys) == keys \ DOMAIN d

\* d_ads, d_mat, n_ads, n_mat = ...['molecular_diameter'], ...['surface_density']
KUnpack ==
    /\ pc = "k_unpack"
    /\ LET keys == {"molecular_diameter", "surface_density"}
       IN  IF Absent(karg.adsorbate_properties, keys) # {}
              \/ Absent(karg.material_properties, keys) # {}
           THEN Raise("KeyError", "unpack")
           ELSE pc' = StepAfter("k_unpack") /\ UNCHANGED outcome
    /\ UNCHANGED <<inputs, history, elsewhere, driver_locals, kernel, karg, kernel_locals, work,
                   consulted, result>>

\* a_ads, a_mat = _dispersion_from_dict(adsorbate_properties, material_properties)
KDispersion ==
    /\ pc = "k_dispersion"
    /\ LET keys == {"polarizability", "magnetic_susceptibility"}
       IN  IF Absent(karg.adsorbate_properties, keys) # {}
              \/ Absent(karg.material_properties, keys) # {}
           THEN /\ Raise("KeyError", "_dispersion_from_dict")
                /\ UNCHANGED <<dispersion, work>>
           ELSE /\ dispersion' = _dispersion_from_dict(karg.adsorbate_properties,
                                                       karg.material_properties)
                /\ work' = [work EXCEPT !.dispersion = TRUE]
                /\ pc' = StepAfter("k_dispersion")
                /\ UNCHANGED outcome
    /\ UNCHANGED <<inputs, history, elsewhere, driver_locals, kernel, karg, p_w, scattered,
                   solved, ret, consulted, result>>

\* one pass of the loop of _solve_hk / _solve_hk_cy: the bounded minimiser
\* evaluates the function of the next point and its result is appended to p_w
KSolve ==
    /\ pc = "k_solve"
    /\ IF Len(p_w) < Len(karg.pressure)
       THEN LET i == NextPoint(p_w, karg.pressure)
                key == Objective(kernel, karg, i, p_w)
                bound == SolverLower(karg.pore_geometry,
                                     karg.adsorbate_properties["molecular_diameter"],
                                     karg.material_properties["molecular_diameter"])
            IN  /\ \E x \in minimize_scalar(memo, key, bound) :
                        /\ p_w' = Append(p_w, x)
                        /\ solved' = Append(solved, Solve(karg, i, bound, x))
                        /\ memo' = memo \cup {[key |-> key, x |-> x]}
                /\ work' = [work EXCEPT !.potential = TRUE, !.minimisation = TRUE]
                /\ UNCHANGED pc
       ELSE /\ pc' = StepAfter("k_solve")
            /\ UNCHANGED <<p_w, solved, memo, work>>
    /\ UNCHANGED <<inputs, earlier, elsewhere, driver_locals, kernel, karg,
                   dispersion, scattered, ret, consulted, result, outcome>>

\* "finally calculate pore distribution" and return
KAssemble ==
    /\ pc = "k_assemble"
    /\ IF Absent(karg.adsorbate_properties,
                 {"liquid_density", "adsorbate_molar_mass"}) # {}
       THEN /\ Raise("KeyError", "assemble")
            /\ UNCHANGED ret
       ELSE /\ ret' = Assemble(kernel, p_w, karg.loading, karg.pore_geometry,
                               karg.adsorbate_properties, karg.material_properties)
            /\ IF entry = "psd_microporous"
               THEN pc' = "return" /\ UNCHANGED outcome
               ELSE pc' = "done" /\ outcome' = Returned
    /\ UNCHANGED <<inputs, history, elsewhere, driver_locals, kernel, karg,
                   dispersion, p_w, scattered, solved, work, consulted, result>>

(* ------------------------------------------------- repeated invocations *)
\* the arguments of the invocations that follow one another
RepeatArgs ==
    {DefaultArgs,
     [DefaultArgs EXCEPT !.psd_model = "HK-CY", !.branch = "des"],
     [DefaultArgs EXCEPT !.psd_model = "RY", !.pore_geometry = "cylinder",
                         !.p_limits = <<NoLimit, 3>>],
     [DefaultArgs EXCEPT !.psd_model = "XX"],
     [DefaultArgs EXCEPT !.branch = "des",
                         !.material_model = DictMaterial(With(CarbonProps, "name", 1))]}

RepeatIsotherms ==
    {Isotherm("nitrogen", StdPressure, StdLoading, TRUE),
     Isotherm("nitrogen", <<1, 2, 2, 3>>, <<1, 3, 0, 3>>, TRUE),
     Isotherm("unknown", StdPressure, StdLoading, FALSE)}

InitRepeat ==
    \E a \in RepeatArgs, iso \in RepeatIsotherms : DriverCall(a, iso)

\* psd_microporous has ended and is called again on the same isotherm: its
\* locals are gone, the isotherm and the module's constants are what they were
CallAgain ==
    /\ pc = "done"
    /\ entry = "psd_microporous"
    /\ Len(earlier) + 1 < MaxCalls
    /\ earlier' = Append(earlier, [args |-> args, outcome |-> outcome,
                                   result |-> result])
    /\ \E a \in RepeatArgs :
        /\ args' = a
        /\ adsorbate_model' = a.adsorbate_model
        /\ p_limits' = a.p_limits
    /\ material_properties' = EmptyDict
    /\ pressure' = <<>>
    /\ loading' = <<>>
    /\ minimum' = 0
    /\ maximum' = 0
    /\ kernel' = "none"
    /\ karg' = NoKernelArgs
    /\ dispersion' = <<>>
    /\ p_w' = <<>>
    /\ scattered' = <<>>
    /\ solved' = <<>>
    /\ work' = NoWork
    /\ consulted' = FALSE
    /\ ret' = NoReturn
    /\ result' = EmptyDict
    /\ outcome' = Running
    /\ pc' = "check_params"
    /\ UNCHANGED <<entry, isotherm, memo, elsewhere>>

Next ==
    \/ CheckParams
    \/ GetAdsorbate
    \/ GetMaterial
    \/ ReadData
    \/ Limits
    \/ Dispatch
    \/ KCheck
    \/ KUnpack
    \/ KDispersion
    \/ KSolve
    \/ KAssemble
    \/ Return

Spec == Init /\ [][Next]_vars

(* ------------------------------------------------- the points in any order *)
\* the loadings of the kernel calls whose points are also solved out of order
AnyOrderLoadings(n) ==
    {Index(n), [i \in 1..n |-> IF i = 1 THEN 3 ELSE 1]}

\* direct calls of a kernel; pressures may repeat
InitAnyOrder ==
    \E k \in KERNELS, g \in _PORE_GEOMETRIES, cy \in BOOLEAN,
       n \in 1..MaxKernelPoints :
        \E ls \in AnyOrderLoadings(n),
           ps \in {Index(n), [i \in 1..n |-> IF i = n THEN 1 ELSE i]} :
            KernelCall(k, [pressure |-> ps, loading |-> ls,
                           pore_geometry |-> g,
                           adsorbate_properties |-> AdsorbateProps,
                           material_properties |-> CarbonProps, use_cy |-> cy])

Indices(found) == {found[j].index : j \in 1..Len(found)}
Widths(found) == [j \in 1..Len(found) |-> found[j].x]

\* a worker beside the loop takes any point not yet taken by a worker, builds
\* the function of that point as the loop does and minimises it
SolveOutOfOrder ==
    /\ pc = "k_solve"
    /\ \E i \in (1..Len(karg.pressure)) \ Indices(scattered) :
        LET key == Objective(kernel, karg, i, Widths(scattered))
            bound == SolverLower(karg.pore_geometry,
                                 karg.adsorbate_properties["molecular_diameter"],
                                 karg.material_properties["molecular_diameter"])
        IN  \E x \in minimize_scalar(memo, key, bound) :
                /\ scattered' = Append(scattered, [index |-> i, x |-> x])
                /\ memo' = memo \cup {[key |-> key, x |-> x]}
    /\ UNCHANGED <<inputs, earlier, elsewhere, driver_locals, kernel, karg,
                   dispersion, p_w, solved, ret, work, consulted, result,
                   outcome, pc>>

NextAnyOrder ==
    \/ KCheck
    \/ KUnpack
    \/ KDispersion
    \/ KSolve
    \/ KAssemble
    \/ SolveOutOfOrder

\* a kernel whose points are solved by the loop and, in any order and
\* interleaved with it, a second time
SpecAnyOrder == InitAnyOrder /\ [][NextAnyOrder]_vars

NextRepeat == Next \/ CallAgain

\* psd_microporous called up to MaxCalls times on one isotherm
SpecRepeat == InitRepeat /\ [][NextRepeat]_vars

(* ------------------------------------------------------------------- IAST *)
\* Mole fractions and partial pressures are counted in tenths.
\* most component isotherms, and longest vector, handed to an IAST routine
MaxComponents == 3
\* 1, in tenths: the value the fractions have to add up to
Unity == 10
FractionValues == {1, 4, 5, 9}
IAST_ROUTINES == {"iast", "reverse_iast", "iast_binary_vle", "iast_binary_svp"}

RECURSIVE SumOf(_)
SumOf(v) == IF Len(v) = 0 THEN 0 ELSE Head(v) + SumOf(Tail(v))

\* the fractions add up to 1; the tolerance of the check is far below a tenth
SumsToOne(v) == SumOf(v) = Unity

\* lists of component isotherms, each component known by its number
ComponentSets == {Index(n) : n \in 0..MaxComponents}
Vectors == UNION {[1..n -> FractionValues] : n \in 0..MaxComponents}

\* the state of psd_microporous.py while another routine runs
NoPsd ==
    /\ isotherm = NoIsotherm
    /\ adsorbate_model = NoAdsorbateModel
    /\ material_properties = EmptyDict
    /\ p_limits = <<>>
    /\ pressure = <<>>
    /\ loading = <<>>
    /\ minimum = 0
    /\ maximum = 0
    /\ kernel = "none"
    /\ karg = NoKernelArgs
    /\ dispersion = <<>>
    /\ p_w = <<>>
    /\ scattered = <<>>
    /\ solved = <<>>
    /\ memo = {}
    /\ earlier = <<>>
    /\ work = NoWork
    /\ consulted = FALSE
    /\ ret = NoReturn

psd_vars == <<isotherm, driver_locals, kernel, karg, kernel_locals, history,
              work, consulted>>

\* the state at the call of an IAST routine
IastCall(routine, isotherms, vector) ==
    /\ entry = routine
    /\ args = [isotherms |-> isotherms, vector |-> vector]
    /\ NoPsd
    /\ scan = 0
    /\ heap = {}
    /\ exit_code = NoExit
    /\ pot = NoPotential
    /\ fit = NoFit
    /\ result = EmptyDict
    /\ outcome = Running
    /\ pc = "call"

InitIast ==
    \E routine \in IAST_ROUTINES, isotherms \in ComponentSets :
        \E vector \in IF routine = "iast_binary_vle" THEN {<<>>} ELSE Vectors :
            IastCall(routine, isotherms, vector)

\* iast without the comparison of the two lengths
iast_checks_ComponentsOnly(isotherms, partial_pressures) ==
    IF Len(isotherms) < 2 THEN "components" ELSE ""

\* iast: "fails with ParameterError if N < 2 or vector length mismatch"
iast_checks(isotherms, partial_pressures) ==
    IF Len(isotherms) < 2 THEN "components"
    ELSE IF Len(partial_pressures) # Len(isotherms) THEN "dimensions"
    ELSE ""

\* reverse_iast without the test of the sum
reverse_iast_checks_NoSum(isotherms, adsorbed_mole_fractions) ==
    IF Len(isotherms) < 2 THEN "components"
    ELSE IF Len(adsorbed_mole_fractions) # Len(isotherms) THEN "dimensions"
    ELSE ""

\* reverse_iast: "fails if fractions don't sum to 1 (tolerance check) or
\* component count mismatch"
reverse_iast_checks(isotherms, adsorbed_mole_fractions) ==
    IF Len(isotherms) < 2 THEN "components"
    ELSE IF Len(adsorbed_mole_fractions) # Len(isotherms) THEN "dimensions"
    ELSE IF ~SumsToOne(adsorbed_mole_fractions) THEN "sum"
    ELSE ""

\* iast_binary_vle: "requiring exactly 2 components"
iast_binary_vle_checks(isotherms) ==
    IF Len(isotherms) # 2 THEN "components" ELSE ""

\* iast_binary_svp accepting any two or more components
iast_binary_svp_checks_TwoOrMore(isotherms, mole_fractions) ==
    IF Len(isotherms) < 2 THEN "components"
    ELSE IF ~SumsToOne(mole_fractions) THEN "sum"
    ELSE ""

\* iast_binary_svp: "requiring exactly 2 components and fraction vectors that
\* sum to 1"
iast_binary_svp_checks(isotherms, mole_fractions) ==
    IF Len(isotherms) # 2 \/ Len(mole_fractions) # 2 THEN "components"
    ELSE IF ~SumsToOne(mole_fractions) THEN "sum"
    ELSE ""

\* the parameter checks of a routine, then the way to its calculation
IastChecked(site) ==
    /\ IF site # ""
       THEN Raise("ParameterError", site)
       ELSE pc' = "iast_solve" /\ UNCHANGED outcome
    /\ UNCHANGED <<entry, args, psd_vars, elsewhere, ret, result>>

iast ==
    /\ pc = "call" /\ entry = "iast"
    /\ IastChecked(iast_checks(args.isotherms, args.vector))

reverse_iast ==
    /\ pc = "call" /\ entry = "reverse_iast"
    /\ IastChecked(reverse_iast_checks(args.isotherms, args.vector))

iast_binary_vle ==
    /\ pc = "call" /\ entry = "iast_binary_vle"
    /\ IastChecked(iast_binary_vle_checks(args.isotherms))

iast_binary_svp ==
    /\ pc = "call" /\ entry = "iast_binary_svp"
    /\ IastChecked(iast_binary_svp_checks(args.isotherms, args.vector))

\* the calculation proper, of which the model keeps that it ends with a value
\* for the components it was given
IastSolve ==
    /\ pc = "iast_solve"
    /\ result' = [components |-> args.isotherms]
    /\ outcome' = Returned
    /\ pc' = "done"
    /\ UNCHANGED <<entry, args, psd_vars, elsewhere, ret>>

NextIast ==
    \/ iast
    \/ reverse_iast
    \/ iast_binary_vle
    \/ iast_binary_svp
    \/ IastSolve

SpecIast == InitIast /\ [][NextIast]_vars

(* ------------------------------------------------------ get_isotherm_model *)
\* most calls of get_isotherm_model that follow one another
MaxLookups == 2

\* the classes of the list _MODELS, in its order
_MODELS ==
    <<"Henry", "Langmuir", "DSLangmuir", "TSLangmuir", "Quadratic", "BET", "GAB",
      "TemkinApprox", "Virial", "Toth", "JensenSeaton", "FHVST", "WVST">>

\* _model.name: the name a class carries, which is not always how the class
\* itself is called
name_of(cls) ==
    CASE cls = "JensenSeaton" -> "Jensen-Seaton"
      [] cls = "FHVST" -> "FH-VST"
      [] cls = "WVST" -> "W-VST"
      [] OTHER -> cls

ModelNames == {name_of(_MODELS[i]) : i \in 1..Len(_MODELS)}

\* the names asked for: those of the classes, and some that no class carries
RequestedNames == ModelNames \cup {"JensenSeaton", "henry", "", NoneStr}

\* one instance kept per class and handed out again
Instantiate_Shared(cls, instances) == [id |-> 0, class |-> cls]

\* _model(): a new object of the class
Instantiate(cls, instances) == [id |-> Cardinality(instances) + 1, class |-> cls]

\* the state at the first call of get_isotherm_model(model_name)
LookupCall(model_name) ==
    /\ entry = "get_isotherm_model"
    /\ args = [model_name |-> model_name]
    /\ NoPsd
    /\ scan = 0
    /\ heap = {}
    /\ exit_code = NoExit
    /\ pot = NoPotential
    /\ fit = NoFit
    /\ result = EmptyDict
    /\ outcome = Running
    /\ pc = "scan"

InitLookup == \E model_name \in RequestedNames : LookupCall(model_name)

\* one pass of "for _model in _MODELS": return an instance of the class when
\* its name is the one asked for, go on to the next class when it is not
ScanModel ==
    /\ pc = "scan"
    /\ scan < Len(_MODELS)
    /\ scan' = scan + 1
    /\ IF args.model_name = name_of(_MODELS[scan + 1])
       THEN /\ result' = Instantiate(_MODELS[scan + 1], heap)
            /\ heap' = heap \cup {Instantiate(_MODELS[scan + 1], heap)}
            /\ outcome' = Returned
            /\ pc' = "done"
       ELSE UNCHANGED <<result, heap, outcome, pc>>
    /\ UNCHANGED <<entry, args, psd_vars, exit_code, pot, fit, ret>>

\* the loop has passed every class: raise ParameterError
ScanEnd ==
    /\ pc = "scan"
    /\ scan = Len(_MODELS)
    /\ Raise("ParameterError", "not an option")
    /\ UNCHANGED <<entry, args, psd_vars, elsewhere, ret, result>>

\* get_isotherm_model has ended and is called again; the instances it has
\* handed out are still there
LookupAgain ==
    /\ pc = "done"
    /\ entry = "get_isotherm_model"
    /\ Len(earlier) + 1 < MaxLookups
    /\ earlier' = Append(earlier, [args |-> args, outcome |-> outcome,
                                   result |-> result])
    /\ \E model_name \in RequestedNames : args' = [model_name |-> model_name]
    /\ scan' = 0
    /\ result' = EmptyDict
    /\ outcome' = Running
    /\ pc' = "scan"
    /\ UNCHANGED <<entry, isotherm, driver_locals, kernel, karg, kernel_locals,
                   memo, work, consulted, heap, exit_code, pot, fit>>

NextLookup == ScanModel \/ ScanEnd \/ LookupAgain

SpecLookup == InitLookup /\ [][NextLookup]_vars

(* ---------------------------------------------------------------- the cli *)
\* most words on the command line
MaxArgs == 2

\* the exit codes: success, an exception out of the command, a usage error
ExitOk == 0
ExitException == 1
ExitUsage == 2

\* the options the decorators declare, and the one click adds
FLAGS == {"-v", "--verbose", "-d", "--display", "--bet-area"}
HelpOption == "--help"
\* files: one holding an isotherm, one that is not JSON, one that is not there
Files == {"iso.json", "broken.json", "absent.json"}
Words == Files \cup {"-v", "-d", "--bet-area", "--help", "--bogus"}
CommandLines == UNION {[1..n -> Words] : n \in 0..MaxArgs}

Given(argv, words) == \E i \in 1..Len(argv) : argv[i] \in words
Positionals(argv) == {i \in 1..Len(argv) : argv[i] \in Files}

\* the parameters the command is called with
CliParams(argv) ==
    [iso_file |-> argv[CHOOSE i \in Positionals(argv) : TRUE],
     verbose |-> Given(argv, {"-v", "--verbose"}),
     display |-> Given(argv, {"-d", "--display"}),
     bet_area |-> Given(argv, {"--bet-area"})]

\* the command line as click reads it for the declared parameters: "" when
\* the command is to be run, "help" when the help is shown, and else the
\* usage error.  iso_file is an argument with no default, which click requires
Usage(argv) ==
    IF \E i \in 1..Len(argv) : argv[i] \notin Files \cup FLAGS \cup {HelpOption}
    THEN "no such option"
    ELSE IF Given(argv, {HelpOption}) THEN "help"
    ELSE IF Positionals(argv) = {} THEN "missing argument ISO_FILE"
    ELSE IF Cardinality(Positionals(argv)) > 1 THEN "unexpected extra argument"
    ELSE IF Given(argv, {"absent.json"}) THEN "could not open file"
    ELSE ""

\* the state when the command is invoked with the words argv
CliCall(argv) ==
    /\ entry = "cli"
    /\ args = [argv |-> argv]
    /\ NoPsd
    /\ scan = 0
    /\ heap = {}
    /\ exit_code = NoExit
    /\ pot = NoPotential
    /\ fit = NoFit
    /\ result = EmptyDict
    /\ outcome = Running
    /\ pc = "parse"

InitCli == \E argv \in CommandLines : CliCall(argv)

Exit(code) == exit_code' = code /\ pc' = "done"

\* click reads the command line before it calls cli
CliParse ==
    /\ pc = "parse"
    /\ LET usage == Usage(args.argv)
       IN  IF usage = "" THEN pc' = "load" /\ UNCHANGED exit_code
           ELSE IF usage = "help" THEN Exit(ExitOk)
           ELSE Exit(ExitUsage)
    /\ UNCHANGED <<entry, args, psd_vars, scan, heap, pot, fit, ret, result, outcome>>

\* iso = pygaps.isotherm_from_json(iso_file.read())
CliLoad ==
    /\ pc = "load"
    /\ IF CliParams(args.argv).iso_file = "broken.json"
       THEN Exit(ExitException)
       ELSE pc' = "display" /\ UNCHANGED exit_code
    /\ UNCHANGED <<entry, args, psd_vars, scan, heap, pot, fit, ret, result, outcome>>

\* if display: iso.print_info()
CliDisplay ==
    /\ pc = "display"
    /\ pc' = "bet_area"
    /\ result' = [printed |-> CliParams(args.argv).display]
    /\ UNCHANGED <<entry, args, psd_vars, elsewhere, ret, outcome>>

\* if bet_area: pygaps.area_BET(iso, verbose=True); plt.show().  The area
\* calculation may raise; the command then ends with the exception
CliBetArea ==
    /\ pc = "bet_area"
    /\ \/ Exit(ExitOk)
       \/ CliParams(args.argv).bet_area /\ Exit(ExitException)
    /\ UNCHANGED <<entry, args, psd_vars, scan, heap, pot, fit, ret, result, outcome>>

NextCli == CliParse \/ CliLoad \/ CliDisplay \/ CliBetArea

SpecCli == InitCli /\ [][NextCli]_vars

(* ------------------------------------ the Rege-Yang potential(l_pore) *)
\* the widest pore the potential is asked for
MaxPoreWidth == 16

\* the geometries whose potential is built layer by layer
LAYERED_GEOMETRIES == {"cylinder", "sphere"}

\* int(n / d) of Python for d > 0: the quotient rounded towards zero
Trunc(n, d) == IF n >= 0 THEN n \div d ELSE -((-n) \div d)

\* n_layers = int((l_pore - d_mat) / d_ads - 0.5) + 1
n_layers_of(l_pore, d_ads, d_mat) ==
    Trunc(2 * (l_pore - d_mat) - d_ads, 2 * d_ads) + 1

\* const.pi / numpy.sin(d_mat / width)**(-1), a value in (0, pi], of which
\* the model keeps two
SineValues == {1, 3}

\* the values of potential_general the model distinguishes
PotentialValues == {-2, -1}

\* layer_population of a pass of the loop.  Cylinder: pi * sin(d_mat / width)
\* if d_ads < width, else 1.  Sphere, in units of 4 * pi:
\* l_pore**2 * n_mat for the first layer, then
\* (l_pore - d_eff - (layer - 1) * d_ads)**2 * n_ads
layer_population_of(pore_geometry, l_pore, layer, d_ads, d_mat, n_ads, n_mat) ==
    LET reach == l_pore - d_eff(d_ads, d_mat) - (layer - 1) * d_ads
    IN  IF pore_geometry = "cylinder"
        THEN IF d_ads < 2 * reach THEN SineValues ELSE {1}
        ELSE IF layer = 1 THEN {l_pore * l_pore * n_mat}
        ELSE {reach * reach * n_ads}

\* the locals of potential(l_pore) before the loop
PotentialLocals(n_layers) ==
    [n_layers |-> n_layers, layer |-> 1, layer_populations |-> <<>>,
     layer_potentials |-> <<>>, layer_population |-> 0, assigned |-> FALSE]

\* the state at a call of potential(l_pore) by the minimiser
PotentialCall(g, l_pore) ==
    /\ entry = "potential"
    /\ args = [pore_geometry |-> g, l_pore |-> l_pore,
               adsorbate_properties |-> AdsorbateProps,
               material_properties |-> CarbonProps]
    /\ NoPsd
    /\ scan = 0
    /\ heap = {}
    /\ exit_code = NoExit
    /\ pot = NoPotential
    /\ fit = NoFit
    /\ result = EmptyDict
    /\ outcome = Running
    /\ pc = "call"

\* the widths of bounds=(d_eff, 50) the model visits
PoreWidths ==
    {l \in d_eff(AdsorbateProps["molecular_diameter"], CarbonProps["molecular_diameter"])..MaxPoreWidth : l <= SolverUpper}

InitPotential ==
    \E g \in LAYERED_GEOMETRIES, l_pore \in PoreWidths : PotentialCall(g, l_pore)

\* n_layers = ...; layer_populations = []; layer_potentials = []
PotentialEnter ==
    /\ pc = "call" /\ entry = "potential"
    /\ pot' = PotentialLocals(n_layers_of(args.l_pore,
                                          args.adsorbate_properties["molecular_diameter"],
                                          args.material_properties["molecular_diameter"]))
    /\ pc' = "layers"
    /\ UNCHANGED <<entry, args, psd_vars, scan, heap, exit_code, fit, ret, result, outcome>>

\* one pass of "for layer in range(1, n_layers)"
PotentialLayer ==
    /\ pc = "layers" /\ entry = "potential"
    /\ pot.layer < pot.n_layers
    /\ \E population \in layer_population_of(args.pore_geometry, args.l_pore, pot.layer,
                                             args.adsorbate_properties["molecular_diameter"],
                                             args.material_properties["molecular_diameter"],
                                             args.adsorbate_properties["surface_density"],
                                             args.material_properties["surface_density"]),
          potential \in PotentialValues :
            pot' = [pot EXCEPT !.layer = @ + 1,
                               !.layer_population = population,
                               !.assigned = TRUE,
                               !.layer_populations = Append(@, population),
                               !.layer_potentials = Append(@, potential)]
    /\ UNCHANGED <<entry, args, psd_vars, scan, heap, exit_code, fit, ret, result, outcome, pc>>

\* layer_molecules = numpy.asarray(layer_population), the local of the last
\* pass and not the list; the value returned, in units of N_over_RT:
\* numpy.sum(layer_molecules * layer_potentials) / numpy.sum(layer_molecules)
potential_value(layer_population, layer_potentials) ==
    Frac(layer_population * SumOf(layer_potentials), layer_population)

\* the end of potential(l_pore): a local never assigned cannot be read
PotentialReturn ==
    /\ pc = "layers" /\ entry = "potential"
    /\ pot.layer >= pot.n_layers
    /\ IF ~pot.assigned
       THEN Raise("UnboundLocalError", "layer_population") /\ UNCHANGED result
       ELSE /\ result' = potential_value(pot.layer_population, pot.layer_potentials)
            /\ outcome' = Returned
            /\ pc' = "done"
    /\ UNCHANGED <<entry, args, psd_vars, elsewhere, ret>>

NextPotential == PotentialEnter \/ PotentialLayer \/ PotentialReturn

SpecPotential == InitPotential /\ [][NextPotential]_vars

(* -------------------------------------------------- initial_enthalpy_comp *)
\* param_names = ['const', 'preexp', 'exp', 'prepowa', 'powa', 'prepowr', 'powr']
param_names == <<"const", "preexp", "exp", "prepowa", "powa", "prepowr", "powr">>

\* the starting guesses, in the order of the tuple "guesses"
guesses == <<"constant", "adjusted", "large exponent", "no exponent">>

\* numpy.inf and numpy.nan as fractions
Infinity == Frac(1, 0)
NotANumber == Frac(0, 0)

\* a < b of two floats, neither of them -inf: false if either is nan
LessThan(a, b) ==
    IF (a.den = 0 /\ a.num = 0) \/ (b.den = 0 /\ b.num = 0) THEN FALSE
    ELSE IF a.den = 0 THEN FALSE
    ELSE IF b.den = 0 THEN TRUE
    ELSE a.num * b.den < b.num * a.den

\* the values of opt_res.fun the model distinguishes: two residual sums of
\* squares, and the two values a failed run may leave
FunValues == {Frac(1, 1), Frac(2, 1), Infinity, NotANumber}

\* opt_res.x of the run started from guess number g: seven values, of which
\* the model keeps which run and which position they come from
x_of(g) == [i \in 1..Len(param_names) |-> 10 * g + i]

\* enthalpy[0], enth_avg - 2 * enth_stdev and the enthalpy of liquefaction
\* of the calls the model makes, and the values of enthalpy_approx(0)
FirstEnthalpy == 20
StatisticalMinima == {10, 30}
Liquefactions == {[raises |-> TRUE, value |-> 0], [raises |-> FALSE, value |-> 20]}
ApproxValues == {20, 80}
\* "if abs(initial_enthalpy - enthalpy[0]) > 50"
Offshoot == 50

Max(a, b) == IF a >= b THEN a ELSE b
Abs(a) == IF a >= 0 THEN a ELSE -a

\* the state at a call of initial_enthalpy_comp, param_guess empty
FitCall(has_enthalpy, stat, liq) ==
    /\ entry = "initial_enthalpy_comp"
    /\ args = [has_enthalpy |-> has_enthalpy, const_min |-> stat, liquefaction |-> liq]
    /\ NoPsd
    /\ scan = 0
    /\ heap = {}
    /\ exit_code = NoExit
    /\ pot = NoPotential
    /\ fit = NoFit
    /\ result = EmptyDict
    /\ outcome = Running
    /\ pc = "call"

InitFit ==
    \E has_enthalpy \in BOOLEAN, stat \in StatisticalMinima, liq \in Liquefactions :
        FitCall(has_enthalpy, stat, liq)

\* the locals of initial_enthalpy_comp once the bounds are set:
\* min_fun = numpy.inf; final_guess = None; best_fit = None
FitLocals(const_min, warnings) ==
    [NoFit EXCEPT !.const_min = const_min, !.warnings = warnings, !.min_fun = Infinity]

\* if enthalpy is None: raise ParameterError
FitRead ==
    /\ pc = "call" /\ entry = "initial_enthalpy_comp"
    /\ IF ~args.has_enthalpy
       THEN Raise("ParameterError", "enthalpy_key")
       ELSE pc' = "bounds" /\ UNCHANGED outcome
    /\ UNCHANGED <<entry, args, psd_vars, elsewhere, ret, result>>

\* a liquefaction enthalpy that cannot be computed is warned about and the
\* bound is left as it is
const_min_Uncaught(stat, liq) ==
    IF liq.raises THEN [raised |-> TRUE, value |-> stat, warnings |-> {}]
    ELSE [raised |-> FALSE, value |-> Max(liq.value, stat), warnings |-> {}]

\* bounds['const_min'] = enth_avg - 2 * enth_stdev, then inside try:
\* max(adsorbate.enthalpy_liquefaction(isotherm.t_exp), bounds['const_min']);
\* except CalculationError: warnings.warn(...)
const_min_of(stat, liq) ==
    IF liq.raises
    THEN [raised |-> FALSE, value |-> stat, warnings |-> {"liquid enthalpy"}]
    ELSE [raised |-> FALSE, value |-> Max(liq.value, stat), warnings |-> {}]

FitBounds ==
    /\ pc = "bounds"
    /\ LET b == const_min_of(args.const_min, args.liquefaction)
       IN  IF b.raised
           THEN Raise("CalculationError", "enthalpy_liquefaction") /\ UNCHANGED fit
           ELSE /\ fit' = FitLocals(b.value, b.warnings)
                /\ pc' = "runs"
                /\ UNCHANGED outcome
    /\ UNCHANGED <<entry, args, psd_vars, scan, heap, exit_code, pot, ret, result>>

\* one pass of "for guess in guesses": the run, then
\* if opt_res.fun < min_fun: final_guess = opt_res.x; best_fit = opt_res.fun
\* (min_fun keeps the value it was given before the loop)
FitRun ==
    /\ pc = "runs"
    /\ Len(fit.runs) < Len(guesses)
    /\ \E fun \in FunValues :
        LET opt_res == [x |-> x_of(Len(fit.runs) + 1), fun |-> fun]
        IN  fit' = IF LessThan(opt_res.fun, fit.min_fun)
                   THEN [fit EXCEPT !.runs = Append(@, opt_res),
                                    !.final_guess = <<opt_res.x>>,
                                    !.best_fit = <<opt_res.fun>>]
                   ELSE [fit EXCEPT !.runs = Append(@, opt_res)]
    /\ UNCHANGED <<entry, args, psd_vars, scan, heap, exit_code, pot, ret, result, outcome, pc>>

\* params[param_names[i]] = final_guess[i], then
\* params.update({'initial_enthalpy': initial_enthalpy})
params_of(final_guess, initial_enthalpy) ==
    [k \in {param_names[i] : i \in 1..Len(param_names)} \cup {"initial_enthalpy"} |->
        IF k = "initial_enthalpy" THEN initial_enthalpy
        ELSE final_guess[CHOOSE i \in 1..Len(param_names) : param_names[i] = k]]

\* after the loop: CalculationError if final_guess is None; else the
\* parameters of final_guess, enthalpy_approx(0), replaced by the first point
\* of the column (initial_enthalpy_point) if it is more than 50 away from it
FitSelect ==
    /\ pc = "runs"
    /\ Len(fit.runs) = Len(guesses)
    /\ IF fit.final_guess = <<>>
       THEN Raise("CalculationError", "all guesses") /\ UNCHANGED <<fit, result>>
       ELSE \E approx \in ApproxValues :
            LET offshoot == Abs(approx - FirstEnthalpy) > Offshoot
            IN  /\ fit' = [fit EXCEPT !.warnings =
                              IF offshoot THEN @ \cup {"offshoot"} ELSE @]
                /\ result' = params_of(fit.final_guess[1],
                                       IF offshoot THEN FirstEnthalpy ELSE approx)
                /\ outcome' = Returned
                /\ pc' = "done"
    /\ UNCHANGED <<entry, args, psd_vars, scan, heap, exit_code, pot, ret>>

NextFit == FitRead \/ FitBounds \/ FitRun \/ FitSelect

SpecFit == InitFit /\ [][NextFit]_vars

(* ------------------------------------------------------------- properties *)
Driver == entry = "psd_microporous"
Done == pc = "done"
KernelReturned == pc = "return" \/ (pc = "done" /\ outcome.kind = "return")

\* the branch as recorded, and as psd_microporous is meant to see it
RecordedPressure ==
    IF args.branch = "des" THEN isotherm.des.pressure ELSE isotherm.ads.pressure
RecordedLoading ==
    IF args.branch = "des" THEN isotherm.des.loading ELSE isotherm.ads.loading
SeenPressure ==
    IF args.branch = "des" THEN Reverse(RecordedPressure) ELSE RecordedPressure
SeenLoading ==
    IF args.branch = "des" THEN Reverse(RecordedLoading) ELSE RecordedLoading

\* the limits of the call: (None, 0.2) when p_limits is not supplied
GivenLow == IF args.p_limits = <<>> THEN NoLimit ELSE args.p_limits[1]
GivenHigh == IF args.p_limits = <<>> THEN DefaultUpper ELSE args.p_limits[2]

\* the elements of seq at the indices S, in order
Pick(seq, S) ==
    [j \in 1..Cardinality(S) |->
        seq[CHOOSE i \in S : Cardinality({k \in S : k < i}) = j - 1]]

\* C1: psd_microporous ends in ParameterError, raised by one of the three
\* parameter checks, whenever psd_model, pore_geometry or branch is outside
\* its allowed set; for values inside the three sets none of the three
\* checks raises.
C1_ParameterChecks ==
    Driver =>
        LET sites == {"psd_model is None", "psd_model", "pore_geometry", "branch"}
            invalid == \/ args.psd_model \notin {"HK", "HK-CY", "RY", "RY-CY"}
                       \/ args.pore_geometry \notin {"slit", "cylinder", "sphere"}
                       \/ args.branch \notin {"ads", "des"}
        IN  /\ invalid /\ pc # "check_params" =>
                /\ Done
                /\ outcome.kind = "ParameterError"
                /\ outcome.site \in sites
            /\ ~invalid => outcome.site \notin sites

C1_Witness ==
    /\ Driver /\ Done
    /\ args.psd_model = "RY-CY" /\ args.pore_geometry = "sphere"
    /\ args.branch = "XX"
    /\ outcome = Raised("ParameterError", "branch")

\* the indices of the branch whose pressure lies in the window, a limit that
\* is None or 0 setting no bound and the upper limit being exclusive
C2_Remaining ==
    {i \in 1..Len(SeenPressure) :
        /\ Truthy(GivenLow) => SeenPressure[i] >= GivenLow
        /\ Truthy(GivenHigh) => SeenPressure[i] < GivenHigh}

C2_Windowed ==
    Driver /\ (pc = "dispatch" \/ kernel # "none" \/ outcome.site = "limits")

C3_EqualLengths ==
    Driver /\ Done /\ outcome.kind = "return" =>
        /\ DOMAIN result =
              {"pore_widths", "pore_distribution", "pore_volume_cumulative"}
        /\ Len(result["pore_widths"]) = Len(result["pore_distribution"])
        /\ Len(result["pore_widths"]) = Len(result["pore_volume_cumulative"])

C3_Witness ==
    /\ Driver /\ Done /\ outcome.kind = "return"
    /\ kernel = "psd_horvath_kawazoe"
    /\ Len(result["pore_widths"]) = 1
    /\ Len(karg.pressure) = 3

\* the unfiltered distribution of the run
UnfilteredDist ==
    pore_dist_of(
        volume_adsorbed_of(karg.loading,
                           karg.adsorbate_properties["adsorbate_molar_mass"],
                           karg.adsorbate_properties["liquid_density"]),
        pore_widths_of(p_w, karg.pore_geometry,
                       karg.material_properties["molecular_diameter"]))

\* 1e-3 <= |d| <= 1e3
C4_AbsInClosedBand(d) ==
    /\ d.den # 0
    /\ LET n == IF d.num < 0 THEN -d.num ELSE d.num
           m == IF d.den < 0 THEN -d.den ELSE d.den
       IN  n * 1000 >= m /\ n <= 1000 * m

\* 1e-3 < d < 1e3
C4_InOpenBand(d) ==
    /\ d.den # 0
    /\ LET n == IF d.den < 0 THEN -d.num ELSE d.num
           m == IF d.den < 0 THEN -d.den ELSE d.den
       IN  n * 1000 > m /\ n < 1000 * m

C4_Negative(d) == d.den # 0 /\ ((d.num < 0) # (d.den < 0)) /\ d.num # 0

\* C4, as claimed: the HK kernel keeps a point exactly when the absolute
\* value of its distribution value lies in [1e-3, 1e3].
C4_AbsoluteBand ==
    kernel = "psd_horvath_kawazoe" /\ KernelReturned =>
        ret.pore_dist = SelectSeq(UnfilteredDist, C4_AbsInClosedBand)

\* C4, amended: the HK kernel keeps a point exactly when its distribution
\* value d itself satisfies 1e-3 < d < 1e3; negative values, the two ends of
\* the band, infinite values and NaN are dropped.
C4_SignedOpenBand ==
    kernel = "psd_horvath_kawazoe" /\ KernelReturned =>
        /\ ret.pore_dist = SelectSeq(UnfilteredDist, C4_InOpenBand)
        /\ \A i \in 1..Len(ret.pore_dist) : ~C4_Negative(ret.pore_dist[i])

C4_Witness ==
    /\ kernel = "psd_horvath_kawazoe" /\ KernelReturned
    /\ \E i \in 1..Len(UnfilteredDist) :
          C4_Negative(UnfilteredDist[i]) /\ C4_AbsInClosedBand(UnfilteredDist[i])
    /\ Len(ret.pore_dist) = 1

\* C5: the RY kernel filters nothing: for n points each of its three
\* sequences has n - 1 entries, whatever the distribution values are; the HK
\* kernel returns at most n - 1 entries, on the same input too.
C5_NoFilterInRY ==
    KernelReturned =>
        LET n == Len(karg.pressure)
            hk == Assemble("psd_horvath_kawazoe", p_w, karg.loading,
                           karg.pore_geometry, karg.adsorbate_properties,
                           karg.material_properties)
        IN  /\ kernel = "psd_horvath_kawazoe_ry" =>
                /\ Len(ret.pore_widths) = n - 1
                /\ Len(ret.pore_dist) = n - 1
                /\ Len(ret.pore_vol_cum) = n - 1
                /\ ret.pore_dist = UnfilteredDist
                /\ Len(hk.pore_widths) <= n - 1
            /\ kernel = "psd_horvath_kawazoe" =>
                /\ Len(ret.pore_widths) <= n - 1
                /\ Len(ret.pore_dist) <= n - 1
                /\ Len(ret.pore_vol_cum) <= n - 1

C5_Witness ==
    /\ KernelReturned /\ kernel = "psd_horvath_kawazoe_ry"
    /\ Len(karg.pressure) = 3
    /\ Len(ret.pore_dist) = 2
    /\ ret.pore_dist[1].den = 0 /\ ret.pore_dist[1].num > 0
    /\ C4_Negative(ret.pore_dist[2])

\* C6: for branch 'des' both series are reversed, index-aligned, before the
\* window is computed, so that a branch recorded in decreasing pressure is
\* windowed and solved in increasing pressure; for 'ads' the order is left
\* as recorded.
C6_DesorptionReversed ==
    Driver =>
        /\ pc = "limits" =>
              /\ pressure = SeenPressure
              /\ loading = SeenLoading
              /\ NonDecreasing(pressure)
              /\ \A i \in 1..Len(pressure) :
                    LET j == IF args.branch = "des" THEN Len(pressure) + 1 - i ELSE i
                    IN  /\ pressure[i] = RecordedPressure[j]
                        /\ loading[i] = RecordedLoading[j]
        /\ kernel # "none" => NonDecreasing(karg.pressure)

C6_Witness ==
    /\ Driver /\ args.branch = "des" /\ kernel # "none"
    /\ RecordedPressure[1] > RecordedPressure[Len(RecordedPressure)]
    /\ karg.pressure[1] < karg.pressure[Len(karg.pressure)]

\* C7: the points handed to the kernel are one contiguous slice of the
\* branch, pressure and loading cut at the same indices; every handed point
\* satisfies lo <= p <= hi; every point with lo < p < hi is handed over; with
\* no lower bound the slice starts at the first point.  A limit of None sets
\* no bound.
C7_Window ==
    Driver /\ kernel # "none" =>
        \E a \in 0..Len(SeenPressure), b \in 0..Len(SeenPressure) :
            /\ karg.pressure = Slice(SeenPressure, a, b)
            /\ karg.loading = Slice(SeenLoading, a, b)
            /\ \A i \in (a + 1)..b :
                  /\ GivenLow # NoLimit => GivenLow <= SeenPressure[i]
                  /\ GivenHigh # NoLimit => SeenPressure[i] <= GivenHigh
            /\ \A i \in 1..Len(SeenPressure) :
                  /\ GivenLow # NoLimit => GivenLow < SeenPressure[i]
                  /\ GivenHigh # NoLimit => SeenPressure[i] < GivenHigh
                  => i \in (a + 1)..b
            /\ GivenLow = NoLimit => a = 0

\* C8: psd_microporous raises ParameterError when adsorbate_model is not
\* supplied and the isotherm's adsorbate is not a recognised Adsorbate; when
\* adsorbate_model is supplied the isotherm's adsorbate is never read and
\* that error is never raised.
C8_AdsorbateLookup ==
    Driver =>
        /\ args.adsorbate_model.is_none /\ isotherm.adsorbate = "unknown"
           /\ pc \notin {"check_params", "get_adsorbate"} =>
              /\ Done
              /\ outcome.kind = "ParameterError"
              /\ ParameterCheck(args.psd_model, args.pore_geometry, args.branch) = ""
                    => outcome.site = "adsorbate"
        /\ ~args.adsorbate_model.is_none =>
              ~consulted /\ outcome.site # "adsorbate"

C8_Witness ==
    /\ Driver /\ Done
    /\ args.adsorbate_model.is_none /\ isotherm.adsorbate = "unknown"
    /\ consulted
    /\ outcome = Raised("ParameterError", "adsorbate")

\* C9: a kernel raises ParameterError at entry whenever material_properties
\* lacks a key of HK_KEYS or adsorbate_properties lacks a key of HK_KEYS,
\* liquid_density or adsorbate_molar_mass: no such mapping gets past the
\* entry check.
C9_MissingKeysRejected ==
    /\ kernel # "none"
    /\ \/ ~(HK_KEYS \subseteq DOMAIN karg.material_properties)
       \/ ~(ADSORBATE_KEYS \subseteq DOMAIN karg.adsorbate_properties)
    => \/ pc = "k_check"
       \/ /\ Done
          /\ outcome.kind = "ParameterError"
          /\ outcome.site \in {"material_properties", "adsorbate_properties"}

\* C10: whenever a run ends in ParameterError, no numeric work has begun: no
\* dispersion constant computed, no potential evaluated, no minimisation
\* started.
C10_ParameterErrorFirst ==
    outcome.kind = "ParameterError" =>
        /\ ~work.dispersion /\ ~work.potential /\ ~work.minimisation
        /\ dispersion = <<>>
        /\ p_w = <<>>

C10_Witness ==
    /\ Driver /\ Done
    /\ kernel = "psd_horvath_kawazoe_ry"
    /\ outcome = Raised("ParameterError", "adsorbate_properties")
    /\ work = NoWork

(* -------------------------------------------------------------- the solvers *)
\* C12: both solvers return one width per input point, in input order: the
\* i-th pass of the loop takes the i-th (pressure, loading) pair and its
\* result is the i-th width, and when the solver has returned there are as
\* many widths as points
C12_OneWidthPerPoint ==
    /\ Len(solved) = Len(p_w)
    /\ Len(p_w) <= Len(karg.pressure)
    /\ \A i \in 1..Len(p_w) :
        /\ solved[i].p_point = karg.pressure[i]
        /\ solved[i].loading = karg.loading[i]
        /\ solved[i].x = p_w[i]
    /\ (pc = "k_assemble" \/ KernelReturned) => Len(p_w) = Len(karg.pressure)

C12_Witness ==
    /\ pc = "k_assemble"
    /\ karg.use_cy
    /\ Len(p_w) >= 3
    /\ p_w[1] # p_w[2]
    /\ karg.loading[1] # karg.loading[2]

\* C13: _solve_hk_cy never takes the logarithm of zero: for no point that it
\* processes is 1 - coverage equal to 0
C13_NoLogOfZero ==
    \A i \in 1..Len(solved) :
        solved[i].corrected => ~IsZero(LogArgument(solved[i].c_point))

C11_SameOutcome ==
    (Driver /\ Done) =>
        \A i \in 1..Len(earlier) :
            earlier[i].args = args =>
                earlier[i].outcome = outcome /\ earlier[i].result = result

C11_Witness ==
    /\ Driver /\ Done
    /\ Len(earlier) = 2
    /\ earlier[1].args = args
    /\ earlier[2].args # args
    /\ earlier[2].outcome.kind # "return"
    /\ outcome.kind = "return"
    /\ args.branch = "des"
    /\ Len(result["pore_widths"]) > 0

(* -------------------------------------------------------------------- IAST *)
\* C15: iast and reverse_iast end with ParameterError whenever fewer than 2
\* component isotherms are given, and whenever the vector is not as long as
\* the list of components
C15_ComponentsAndDimensions ==
    (Done /\ entry \in {"iast", "reverse_iast"}
          /\ (Len(args.isotherms) < 2 \/ Len(args.vector) # Len(args.isotherms)))
        => outcome.kind = "ParameterError"

C15_Witness ==
    /\ Done
    /\ entry = "iast"
    /\ Len(args.isotherms) = 2
    /\ args.vector = <<1>>
    /\ outcome = Raised("ParameterError", "dimensions")

\* C16: reverse_iast ends with ParameterError whenever the target fractions
\* do not add up to 1, also when there are 2 or more components and as many
\* fractions
C16_FractionsSumToOne ==
    (Done /\ entry = "reverse_iast" /\ ~SumsToOne(args.vector))
        => outcome.kind = "ParameterError"

C16_Witness ==
    /\ Done
    /\ entry = "reverse_iast"
    /\ Len(args.isotherms) = 2
    /\ args.vector = <<1, 4>>
    /\ outcome = Raised("ParameterError", "sum")

\* C17: iast_binary_vle and iast_binary_svp end with ParameterError unless
\* exactly 2 component isotherms are given, and iast_binary_svp also when its
\* fractions do not add up to 1
C17_BinaryChecks ==
    /\ (Done /\ entry \in {"iast_binary_vle", "iast_binary_svp"}
             /\ Len(args.isotherms) # 2)
           => outcome.kind = "ParameterError"
    /\ (Done /\ entry = "iast_binary_svp" /\ ~SumsToOne(args.vector))
           => outcome.kind = "ParameterError"

C17_Witness ==
    /\ Done
    /\ entry = "iast_binary_svp"
    /\ Len(args.isotherms) = 3
    /\ args.vector = <<1, 4, 5>>
    /\ outcome = Raised("ParameterError", "components")

(* ------------------------------------------------------ get_isotherm_model *)
\* C18: a call of get_isotherm_model with a name that a class of _MODELS
\* carries returns an instance of a class with that name which did not exist
\* before the call; a call with any other name raises ParameterError and
\* creates no instance
C18_FreshInstanceOrError ==
    [][(entry = "get_isotherm_model" /\ pc = "scan" /\ pc' = "done") =>
          IF args.model_name \in ModelNames
          THEN /\ outcome'.kind = "return"
               /\ name_of(result'.class) = args.model_name
               /\ result' \notin heap
               /\ heap' = heap \cup {result'}
          ELSE /\ outcome'.kind = "ParameterError"
               /\ heap' = heap]_vars

C18_Witness ==
    /\ Done
    /\ entry = "get_isotherm_model"
    /\ Len(earlier) = 1
    /\ earlier[1].args = args
    /\ earlier[1].outcome.kind = "return"
    /\ outcome.kind = "return"
    /\ args.model_name = "W-VST"
    /\ result.class = "WVST"
    /\ result # earlier[1].result
    /\ Cardinality(heap) = 2

(* ---------------------------------------------------------------- the cli *)
\* C19: the command invoked with no arguments and no options ends with exit
\* code 0
C19_NoArgumentsExitZero ==
    (entry = "cli" /\ pc = "done" /\ Len(args.argv) = 0) => exit_code = 0

(* ------------------------------------------------- the points in any order *)
\* C21: the width of a point does not depend on when the point is solved:
\* the points solved in any order, interleaved with the loop, get the widths
\* that the loop puts at their index
C21_OrderIndependent ==
    \A j \in 1..Len(scattered) :
        scattered[j].index <= Len(p_w) => scattered[j].x = p_w[scattered[j].index]

C21_Witness ==
    /\ pc = "k_assemble"
    /\ karg.use_cy
    /\ Len(p_w) = 3
    /\ Len(scattered) = 3
    /\ scattered[1].index = 3
    /\ scattered[2].index = 1
    /\ p_w[1] # p_w[2]

(* ---------------------------------------------------------------- assembly *)
\* the width that claim C22 gives for the solved value s
C22_Width(s) ==
    IF karg.pore_geometry = "slit"
    THEN s - karg.material_properties["molecular_diameter"]
    ELSE 2 * s - karg.material_properties["molecular_diameter"]

\* the midpoint of the widths of the points i and i + 1
C22_Midpoint(i) == Frac(C22_Width(p_w[i]) + C22_Width(p_w[i + 1]), 2)

\* C22: in both kernels the solved value s becomes the width s - d_mat for
\* the slit and 2 * s - d_mat for the cylinder and the sphere, for every
\* point: the midpoints a kernel returns are midpoints of these widths, all
\* of them in order for the RY kernel
C22_WidthTransform ==
    KernelReturned =>
        /\ \A j \in 1..Len(ret.pore_widths) :
              \E i \in j..(Len(p_w) - 1) : ret.pore_widths[j] = C22_Midpoint(i)
        /\ kernel = "psd_horvath_kawazoe_ry" =>
              ret.pore_widths = [i \in 1..(Len(p_w) - 1) |-> C22_Midpoint(i)]

C22_Witness ==
    /\ KernelReturned
    /\ kernel = "psd_horvath_kawazoe"
    /\ karg.pore_geometry = "sphere"
    /\ Len(p_w) = 3
    /\ p_w[1] # p_w[2]
    /\ Len(ret.pore_widths) >= 1
    /\ ret.pore_widths[1] = C22_Midpoint(1)
    /\ C22_Width(p_w[1]) = 2 * p_w[1] - 2

\* V = loading * molar_mass / liquid_density / 1000 of point i
C23_Volume(i) ==
    Frac(karg.loading[i] * karg.adsorbate_properties["adsorbate_molar_mass"],
         karg.adsorbate_properties["liquid_density"] * 1000)

\* entry i of the assembly as claim C23 gives it
C23_Entry(i) ==
    [midpoint |-> C22_Midpoint(i),
     dist |-> Frac(C23_Volume(i + 1).num - C23_Volume(i).num,
                   C23_Volume(i).den
                     * (C22_Width(p_w[i + 1]) - C22_Width(p_w[i]))),
     volume |-> C23_Volume(i + 1)]

\* entry j of what the kernel returned
C23_Returned(j) ==
    [midpoint |-> ret.pore_widths[j], dist |-> ret.pore_dist[j],
     volume |-> ret.pore_vol_cum[j]]

\* C23: entry i of the assembly is the midpoint of the widths i and i + 1,
\* the quotient of the differences of volume and of width, and the volume of
\* point i + 1; the RY kernel returns all n - 1 entries, and every entry the
\* HK kernel returns is one of them, its three values of the same index
C23_AssemblyEntries ==
    KernelReturned =>
        /\ Len(ret.pore_dist) = Len(ret.pore_widths)
        /\ Len(ret.pore_vol_cum) = Len(ret.pore_widths)
        /\ \A j \in 1..Len(ret.pore_widths) :
              \E i \in j..(Len(p_w) - 1) : C23_Returned(j) = C23_Entry(i)
        /\ kernel = "psd_horvath_kawazoe_ry" =>
              /\ Len(ret.pore_widths) = Len(p_w) - 1
              /\ \A i \in 1..(Len(p_w) - 1) : C23_Returned(i) = C23_Entry(i)

C23_Witness ==
    /\ KernelReturned
    /\ kernel = "psd_horvath_kawazoe"
    /\ Len(p_w) = 3
    /\ Len(ret.pore_widths) = 1
    /\ C23_Returned(1) = C23_Entry(2)
    /\ C23_Returned(1) # C23_Entry(1)

\* sum_i(population_i * potential_i) over the layers evaluated
C24_WeightedSum ==
    SumOf([i \in 1..Len(pot.layer_potentials) |->
              pot.layer_populations[i] * pot.layer_potentials[i]])

\* C24: the value potential(l_pore) returns for the cylinder and the sphere
\* is, in units of N/(RT), the population-weighted average of the layer
\* potentials: sum_i(population_i * potential_i) / sum_i(population_i)
C24_WeightedAverage ==
    (entry = "potential" /\ pc = "done" /\ outcome = Returned) =>
        result.num * SumOf(pot.layer_populations) = result.den * C24_WeightedSum

\* C25: at every width of the search interval potential(l_pore) evaluates at
\* least one layer (n_layers >= 2) and ends with a value, never with an error
C25_PotentialDefined ==
    (entry = "potential" /\ pc # "call") =>
        /\ pot.n_layers >= 2
        /\ pc = "done" => outcome = Returned

FitEnded == entry = "initial_enthalpy_comp" /\ pc = "done"

\* the mapping returned holds, name by name, the x of run j
C26_ParametersOf(j) ==
    \A i \in 1..Len(param_names) : result[param_names[i]] = fit.runs[j].x[i]

\* C26: the parameters initial_enthalpy_comp returns are those of the run
\* with the smallest residual sum of squares among its four runs
C26_BestRunKept ==
    (FitEnded /\ outcome = Returned) =>
        \E j \in 1..Len(fit.runs) :
            /\ C26_ParametersOf(j)
            /\ LessThan(fit.runs[j].fun, Infinity)
            /\ \A k \in 1..Len(fit.runs) : ~LessThan(fit.runs[k].fun, fit.runs[j].fun)

\* no run ended with a residual below infinity
C27_NoCandidate ==
    \A j \in 1..Len(fit.runs) : ~LessThan(fit.runs[j].fun, Infinity)

\* C27: a call of initial_enthalpy_comp that found its enthalpy column makes
\* its four runs and then raises CalculationError exactly when no run ended
\* with a residual below infinity, and otherwise returns the seven fitted
\* parameters and initial_enthalpy; a liquefaction enthalpy that cannot be
\* computed is warned about and leaves the statistical bound of the constant
\* term in place.  The only other end is the ParameterError of a missing
\* column, before any run
C27_ErrorExactlyWithoutCandidate ==
    FitEnded =>
        IF outcome.kind = "ParameterError"
        THEN ~args.has_enthalpy /\ fit = NoFit
        ELSE /\ args.has_enthalpy
             /\ (outcome.kind = "CalculationError") <=>
                    (Len(fit.runs) = Len(guesses) /\ C27_NoCandidate)
             /\ outcome.kind # "CalculationError" =>
                    /\ outcome = Returned
                    /\ Len(fit.runs) = Len(guesses)
                    /\ DOMAIN result = {param_names[i] : i \in 1..Len(param_names)}
                                          \cup {"initial_enthalpy"}
                    /\ Cardinality(DOMAIN result) = Len(param_names) + 1
             /\ args.liquefaction.raises =>
                    /\ "liquid enthalpy" \in fit.warnings
                    /\ fit.const_min = args.const_min

C27_Witness ==
    /\ FitEnded
    /\ outcome.kind = "CalculationError"
    /\ args.liquefaction.raises
    /\ "liquid enthalpy" \in fit.warnings
    /\ Len(fit.runs) = Len(guesses)
    /\ fit.runs[1].fun = NotANumber
    /\ fit.runs[2].fun = Infinity

====
